---- MODULE Spec2Model ----
(***************************************************************************)
(* Model of the Zelda UCode HLE (Source/Core/Core/HW/DSPHLE/UCodes/Zelda.h):*)
(* the command buffer (Read32 / Write32), the mailbox state machine, the    *)
(* rendering flow control and the buffer utility functions of the renderer; *)
(* and of the PulseAudio sound stream (AudioCommon/PulseAudioStream.cpp).   *)
(***************************************************************************)
EXTENDS Integers, Sequences, FiniteSets, TLC

VARIABLES
    m_mail_current_state,        \* MailState
    m_mail_expected_cmd_mails,   \* u32
    m_sync_max_voice_id,         \* u32
    m_sync_voice_skip_flags,     \* std::array<u32, 256>
    m_cmd_buffer,                \* std::array<u32, 64>
    m_read_offset,               \* u32
    m_write_offset,              \* u32
    m_pending_commands_count,    \* u32
    m_cmd_can_execute,           \* bool
    m_rendering_requested_frames,\* u32
    m_rendering_voices_per_frame,\* u16
    m_rendering_curr_frame,      \* u32
    m_rendering_curr_voice,      \* u32
    m_prepared,                  \* ZeldaAudioRenderer::m_prepared
    m_buf,                       \* the eight MixingBuffer members
    m_output_volume,             \* ZeldaAudioRenderer::m_output_volume
    m_vpb_base_addr,             \* ZeldaAudioRenderer::m_vpb_base_addr
    m_output_lbuf_addr,          \* ZeldaAudioRenderer::m_output_lbuf_addr
    m_output_rbuf_addr,          \* ZeldaAudioRenderer::m_output_rbuf_addr
    fifo,                        \* observer of the Read32 / Write32 calls
    obs,                         \* observer of acks and renderer calls
    mix,                         \* a call of a buffer utility function
    pa                           \* the PulseAudio sound stream

ucodeVars == << m_mail_current_state, m_mail_expected_cmd_mails,
                m_sync_max_voice_id, m_sync_voice_skip_flags,
                m_pending_commands_count, m_cmd_can_execute,
                m_rendering_requested_frames, m_rendering_voices_per_frame,
                m_rendering_curr_frame, m_rendering_curr_voice,
                m_prepared, m_buf, m_output_volume, m_vpb_base_addr,
                m_output_lbuf_addr, m_output_rbuf_addr >>

bufVars == << m_cmd_buffer, m_read_offset, m_write_offset >>

vars == << ucodeVars, bufVars, fifo, obs, mix, pa >>

----------------------------------------------------------------------------
(* Program constants *)

\* sizeof (m_cmd_buffer) / sizeof (u32)
CmdBufferSize == 64

\* number of entries of m_sync_voice_skip_flags
SkipFlagsSize == 256

U16 == 65536

MailStates == {"WAITING", "RENDERING", "WRITING_CMD", "HALTED"}

----------------------------------------------------------------------------
(* Bounds of the model *)

\* Write32 calls of the command buffer harness (more than CmdBufferSize, so
\* that the write offset laps the read offset)
MaxWrites == 66

\* Read32 calls of the command buffer harness
MaxReads == 68

\* Read32 calls of the command buffer harness that find the buffer empty
MaxUnderruns == 2

----------------------------------------------------------------------------
(* Command buffer: Read32 / Write32 *)

\* A Read32 that advances the read pointer on an underrun too.
Read32_AdvanceOnUnderrun(read_offset, write_offset, cmd_buffer) ==
    [ res         |-> IF read_offset = write_offset THEN 0
                      ELSE cmd_buffer[read_offset],
      read_offset |-> (read_offset + 1) % CmdBufferSize,
      error_log   |-> read_offset = write_offset ]

\* A Read32 that does not advance the read pointer.
Read32_NoAdvance(read_offset, write_offset, cmd_buffer) ==
    [ res         |-> IF read_offset = write_offset THEN 0
                      ELSE cmd_buffer[read_offset],
      read_offset |-> read_offset,
      error_log   |-> read_offset = write_offset ]

\* A Read32 that returns the most recently written word (LIFO).
Read32_Lifo(read_offset, write_offset, cmd_buffer) ==
    [ res         |-> IF read_offset = write_offset THEN 0
                      ELSE cmd_buffer[(write_offset + CmdBufferSize - 1)
                                      % CmdBufferSize],
      read_offset |-> IF read_offset = write_offset THEN read_offset
                      ELSE (read_offset + 1) % CmdBufferSize,
      error_log   |-> read_offset = write_offset ]

\* u32 Read32(): the value returned, the new m_read_offset, and whether
\* "Reading too many command params" was logged.
Read32(read_offset, write_offset, cmd_buffer) ==
    IF read_offset = write_offset
    THEN [ res         |-> 0,
           read_offset |-> read_offset,
           error_log   |-> TRUE ]
    ELSE [ res         |-> cmd_buffer[read_offset],
           read_offset |-> (read_offset + 1) % CmdBufferSize,
           error_log   |-> FALSE ]

\* A Write32 that advances the write pointer and stores nothing.
Write32_NoStore(write_offset, cmd_buffer, val) ==
    [ cmd_buffer   |-> cmd_buffer,
      write_offset |-> (write_offset + 1) % CmdBufferSize ]

\* void Write32(u32 val): the new m_cmd_buffer and m_write_offset.
Write32(write_offset, cmd_buffer, val) ==
    [ cmd_buffer   |-> [cmd_buffer EXCEPT ![write_offset] = val],
      write_offset |-> (write_offset + 1) % CmdBufferSize ]

----------------------------------------------------------------------------
(* State after construction (the member initialisers of Zelda.h) *)

\* The mixing buses of the renderer.
Buses == { "front_left", "front_right", "back_left", "back_right",
           "front_left_reverb", "front_right_reverb",
           "back_left_reverb", "back_right_reverb" }

InitUCode ==
    /\ m_mail_current_state = "WAITING"
    /\ m_mail_expected_cmd_mails = 0
    /\ m_sync_max_voice_id = 0
    /\ m_sync_voice_skip_flags = [i \in 0..(SkipFlagsSize - 1) |-> 0]
    /\ m_pending_commands_count = 0
    /\ m_cmd_can_execute = TRUE
    /\ m_rendering_requested_frames = 0
    /\ m_rendering_voices_per_frame = 0
    /\ m_rendering_curr_frame = 0
    /\ m_rendering_curr_voice = 0
    /\ m_prepared = FALSE
    /\ m_buf = [b \in Buses |-> << >>]
    /\ m_output_volume = 0
    /\ m_vpb_base_addr = 0
    /\ m_output_lbuf_addr = 0
    /\ m_output_rbuf_addr = 0

InitBuf ==
    /\ m_cmd_buffer = [i \in 0..(CmdBufferSize - 1) |-> 0]
    /\ m_read_offset = 0
    /\ m_write_offset = 0

InitObs ==
    obs = [ n_mails           |-> 0,      \* HandleMail calls
            last_call         |-> "none", \* "HandleMail" or "Update"
            last_mail         |-> 0,
            halted_mails      |-> 0,      \* HandleMail calls in state HALTED
            opcode            |-> 0,      \* opcode of the last command begun
            std_acks          |-> 0,      \* STANDARD acks sent
            done_acks         |-> 0,      \* DONE_RENDERING acks sent
            done_ok           |-> TRUE,   \* each DONE_RENDERING ack was sent
                                          \* in state WAITING with every
                                          \* requested frame finalized
            cmds_popped       |-> 0,      \* commands taken from the buffer
            renders_started   |-> 0,      \* render-frame commands executed
            renders_completed |-> 0,
            frames_finalized  |-> 0,      \* FinalizeFrame calls of the
                                          \* current render-frame command
            exec_reads        |-> 0,      \* Read32 calls of command execution
            added             |-> << >>,  \* voices added to the current frame
            add_ok            |-> TRUE,   \* each AddVoice was for an admitted
                                          \* voice that is not skipped
            work              |-> 0 ]     \* AddVoice + FinalizeFrame calls of
                                          \* the last Update

\* const size_t BUFFER_SAMPLES = 512
BUFFER_SAMPLES == 512

\* const size_t CHANNEL_COUNT = 2
CHANNEL_COUNT == 2

\* sizeof(s16)
SizeOfS16 == 2

\* const size_t BUFFER_SIZE = BUFFER_SAMPLES * CHANNEL_COUNT * sizeof(s16)
BUFFER_SIZE == BUFFER_SAMPLES * CHANNEL_COUNT * SizeOfS16

\* The sound stream after construction: no audio thread, m_run_thread false.
\* m_pa_connected, m_pa_error and m_pa_ba.tlength are not read before
\* PulseInit assigns them.
InitPulse ==
    pa = [ main           |-> "constructed", \* the caller of Start and Stop
           starts         |-> 0,             \* Start calls
           m_run_thread   |-> FALSE,
           pc             |-> "none",        \* the audio thread
           m_pa_connected |-> 0,
           m_pa_error     |-> 0,             \* 0: not negative, -1: negative
           tlength        |-> 0,             \* m_pa_ba.tlength
           underflows     |-> 0,             \* UnderflowCallback calls of
                                             \* the connected stream
           ml             |-> 0,             \* main loops and contexts
                                             \* created and not released
           shutdowns      |-> 0,             \* PulseShutdown calls of the
                                             \* SoundLoop call
           iterates       |-> 0,             \* parity of the iterations
           tempo          |-> 100,           \* m_soundTouch tempo, percent
           held           |-> 0,             \* frames m_soundTouch holds
           length         |-> 0,             \* WriteCallback: bytes
           wanted         |-> 0,             \* num_frames_wanted
           received       |-> 0,             \* num_frames_received
           last_mix       |-> 0,             \* frames of the last Mix call
           last_put       |-> 0,             \* frames of the last putSamples
           written        |-> 0 ]            \* bytes of the pa_stream_write

\* No call of a buffer utility function is modelled.
InitMixIdle == mix = [ kind |-> "none" ]

----------------------------------------------------------------------------
(* Harness of the command buffer: any interleaving of Write32 and Read32,   *)
(* the i-th word written being base + i: pairwise distinct words, the word 0  *)
(* among them when base = 0.                                                *)

FifoBases == {0, 1000}

WordAt(base, i) == base + i

FifoObserver(b) ==
    [ base       |-> b,
      n_written  |-> 0,     \* Write32 calls
      n_reads    |-> 0,     \* Read32 calls
      n_returned |-> 0,     \* Read32 calls that did not underrun
      mixed      |-> FALSE, \* a Write32 followed a Read32
      lapped     |-> FALSE, \* a Write32 made m_write_offset reach
                            \* m_read_offset
      last_op    |-> "none",
      last_res   |-> 0,
      last_log   |-> FALSE, \* the last Read32 logged an underrun
      last_id    |-> 0,     \* which write the last Read32 returned
      last_fresh |-> TRUE,  \* ... and it was not returned before
      slot_id    |-> [i \in 0..(CmdBufferSize - 1) |-> 0],
      returned   |-> {} ]

InitFifo ==
    /\ InitUCode
    /\ InitBuf
    /\ InitObs
    /\ InitMixIdle
    /\ InitPulse
    /\ \E b \in FifoBases : fifo = FifoObserver(b)

FifoWrite ==
    /\ fifo.n_written < MaxWrites
    /\ LET w == Write32(m_write_offset, m_cmd_buffer,
                        WordAt(fifo.base, fifo.n_written))
       IN /\ m_cmd_buffer' = w.cmd_buffer
          /\ m_write_offset' = w.write_offset
          /\ fifo' = [fifo EXCEPT
                        !.n_written = @ + 1,
                        !.mixed     = @ \/ fifo.n_reads > 0,
                        !.lapped    = @ \/ w.write_offset = m_read_offset,
                        !.last_op   = "write",
                        !.slot_id   = [@ EXCEPT ![m_write_offset] =
                                          fifo.n_written + 1]]
    /\ UNCHANGED << ucodeVars, m_read_offset, obs, mix, pa >>

FifoRead ==
    /\ fifo.n_reads < MaxReads
    /\ m_read_offset = m_write_offset
          => fifo.n_reads - fifo.n_returned < MaxUnderruns
    /\ LET r  == Read32(m_read_offset, m_write_offset, m_cmd_buffer)
           id == fifo.slot_id[m_read_offset]
       IN /\ m_read_offset' = r.read_offset
          /\ fifo' = [fifo EXCEPT
                        !.n_reads    = @ + 1,
                        !.n_returned = IF r.error_log THEN @ ELSE @ + 1,
                        !.last_op    = "read",
                        !.last_res   = r.res,
                        !.last_log   = r.error_log,
                        !.last_id    = IF r.error_log THEN 0 ELSE id,
                        !.last_fresh = r.error_log \/ id \notin fifo.returned,
                        !.returned   = IF r.error_log THEN @ ELSE @ \cup {id}]
    /\ UNCHANGED << ucodeVars, m_cmd_buffer, m_write_offset, obs, mix, pa >>

NextFifo == FifoWrite \/ FifoRead

SpecFifo == InitFifo /\ [][NextFifo]_vars

\* Words written and not yet returned, as the cursors count them.
Unread == (m_write_offset + CmdBufferSize - m_read_offset) % CmdBufferSize

----------------------------------------------------------------------------
(* C1 *)

\* C1 (as stated): starting from an empty command buffer, for every n >= 0,
\* n calls to Write32 followed by n calls to Read32 return the written words
\* in the order they were written: the k-th Read32 returns the k-th word.
C1_RoundTripAnyLength ==
    (fifo.last_op = "read" /\ ~fifo.mixed /\ fifo.n_reads <= fifo.n_written)
        => fifo.last_res = WordAt(fifo.base, fifo.n_reads - 1)

\* C1 (amended): the round trip holds for n <= CmdBufferSize - 1 = 63 words;
\* more generally, as long as no Write32 has made the write offset reach the
\* read offset, the j-th Read32 that finds a word returns the j-th word
\* written, and a Read32 underruns only when every written word was returned.
C1_RoundTripUpTo63 ==
    /\ (fifo.last_op = "read" /\ ~fifo.mixed
           /\ fifo.n_written <= CmdBufferSize - 1
           /\ fifo.n_reads <= fifo.n_written)
          => (~fifo.last_log
              /\ fifo.last_res = WordAt(fifo.base, fifo.n_reads - 1))
    /\ (fifo.last_op = "read" /\ ~fifo.lapped)
          => IF fifo.last_log
             THEN fifo.n_returned = fifo.n_written /\ fifo.last_res = 0
             ELSE fifo.last_res = WordAt(fifo.base, fifo.n_returned - 1)
    /\ ~fifo.lapped => Unread = fifo.n_written - fifo.n_returned

\* 63 words written to the empty buffer and then read back, the last one
\* being the 63rd word.
C1_Witness ==
    /\ ~fifo.mixed
    /\ fifo.base = 1000
    /\ fifo.n_written = CmdBufferSize - 1
    /\ fifo.n_reads = CmdBufferSize - 1
    /\ fifo.last_op = "read"
    /\ fifo.last_res = 1000 + CmdBufferSize - 2

----------------------------------------------------------------------------
(* C2 *)

\* C2: whenever Read32 is called with m_read_offset = m_write_offset it
\* returns 0 (and logs), and the read offset, the write offset, the buffer
\* contents and the mailbox state are the same after the call as before it;
\* the state does not become HALTED.
C2_UnderrunLeavesState ==
    [][ (fifo'.n_reads = fifo.n_reads + 1 /\ m_read_offset = m_write_offset)
          => /\ fifo'.last_res = 0
             /\ fifo'.last_log
             /\ m_read_offset' = m_read_offset
             /\ m_write_offset' = m_write_offset
             /\ m_cmd_buffer' = m_cmd_buffer
             /\ m_mail_current_state' = m_mail_current_state
             /\ m_mail_current_state' # "HALTED" ]_vars

\* A Read32 beyond the words written: three words written (base 1000, so no
\* word is 0), three returned, and a fourth Read32 that returned 0.
C2_Witness ==
    /\ fifo.base = 1000
    /\ fifo.n_written = 3
    /\ fifo.n_returned = 3
    /\ fifo.n_reads = 4
    /\ fifo.last_op = "read"
    /\ fifo.last_log
    /\ fifo.last_res = 0
    /\ m_read_offset = 3
    /\ m_write_offset = 3

----------------------------------------------------------------------------
(* C3 *)

\* C3: in every interleaving of Write32 and Read32 calls, the Read32 calls
\* that returned a buffered word are at most as many as the Write32 calls
\* (together with the words the cursors still count as unread), and a word
\* returned by a Read32 that did not underrun is the word some Write32 wrote
\* and no earlier Read32 returned.
C3_ReadNeverPassesWrite ==
    /\ fifo.n_returned + Unread <= fifo.n_written
    /\ Cardinality(fifo.returned) = fifo.n_returned
    /\ (fifo.n_returned > 0 /\ ~fifo.last_log)
          => /\ fifo.last_id \in 1..fifo.n_written
             /\ fifo.last_fresh
             /\ fifo.last_res = WordAt(fifo.base, fifo.last_id - 1)

\* The write offset has lapped the read offset (65 writes before any read)
\* and the Read32 after that returned the 65th word, written over the first.
C3_Witness ==
    /\ fifo.n_written = CmdBufferSize + 1
    /\ fifo.n_returned = 1
    /\ fifo.last_op = "read"
    /\ ~fifo.last_log
    /\ fifo.last_id = CmdBufferSize + 1
    /\ fifo.last_res = WordAt(fifo.base, CmdBufferSize)

----------------------------------------------------------------------------
(* The mailbox protocol.  Zelda.h declares HandleMail, Update,              *)
(* RunPendingCommands, SendCommandAck and RenderAudio; their definitions     *)
(* follow the design document (sections 3, 4.1, 4.2 and 5).  The state is    *)
(* handled as a record s of the member variables, plus the observer.        *)

\* Mails sent during rendering to synchronise voices: a tag, the index of a
\* group of 16 voices and the 16 skip flags of that group.
SyncTag == 1073741824

VoicesPerSync == 16

SyncMail(idx, flags) == SyncTag + idx * U16 + flags

IsSyncMail(mail) == mail >= SyncTag

SyncIndex(mail) == (mail \div U16) % SkipFlagsSize

SyncFlags(mail) == mail % U16

\* Opcodes of the multi-word commands.
OP_SET_TABLES == 1

OP_RENDER == 2

OP_SET_OUTPUT_VOLUME == 3

OP_SET_VPB_BASE == 4

OP_SET_OUTPUT_BUFS == 5

Opcodes == { OP_SET_TABLES, OP_RENDER, OP_SET_OUTPUT_VOLUME, OP_SET_VPB_BASE,
             OP_SET_OUTPUT_BUFS }

IsCommandOpcode(mail) == mail \in Opcodes

\* Parameter mails that follow the opcode mail.
ExpectedParams(opcode) ==
    CASE opcode = OP_SET_TABLES        -> 3
      [] opcode = OP_RENDER            -> 2
      [] opcode = OP_SET_OUTPUT_VOLUME -> 1
      [] opcode = OP_SET_VPB_BASE      -> 1
      [] opcode = OP_SET_OUTPUT_BUFS   -> 2
      [] OTHER                         -> 0

\* The member variables as one record.
Cur ==
    [ m_mail_current_state         |-> m_mail_current_state,
      m_mail_expected_cmd_mails    |-> m_mail_expected_cmd_mails,
      m_sync_max_voice_id          |-> m_sync_max_voice_id,
      m_sync_voice_skip_flags      |-> m_sync_voice_skip_flags,
      m_cmd_buffer                 |-> m_cmd_buffer,
      m_read_offset                |-> m_read_offset,
      m_write_offset               |-> m_write_offset,
      m_pending_commands_count     |-> m_pending_commands_count,
      m_cmd_can_execute            |-> m_cmd_can_execute,
      m_rendering_requested_frames |-> m_rendering_requested_frames,
      m_rendering_voices_per_frame |-> m_rendering_voices_per_frame,
      m_rendering_curr_frame       |-> m_rendering_curr_frame,
      m_rendering_curr_voice       |-> m_rendering_curr_voice,
      m_prepared                   |-> m_prepared,
      m_buf                        |-> m_buf,
      m_output_volume              |-> m_output_volume,
      m_vpb_base_addr              |-> m_vpb_base_addr,
      m_output_lbuf_addr           |-> m_output_lbuf_addr,
      m_output_rbuf_addr           |-> m_output_rbuf_addr,
      obs                          |-> obs ]

Install(s) ==
    /\ m_mail_current_state' = s.m_mail_current_state
    /\ m_mail_expected_cmd_mails' = s.m_mail_expected_cmd_mails
    /\ m_sync_max_voice_id' = s.m_sync_max_voice_id
    /\ m_sync_voice_skip_flags' = s.m_sync_voice_skip_flags
    /\ m_cmd_buffer' = s.m_cmd_buffer
    /\ m_read_offset' = s.m_read_offset
    /\ m_write_offset' = s.m_write_offset
    /\ m_pending_commands_count' = s.m_pending_commands_count
    /\ m_cmd_can_execute' = s.m_cmd_can_execute
    /\ m_rendering_requested_frames' = s.m_rendering_requested_frames
    /\ m_rendering_voices_per_frame' = s.m_rendering_voices_per_frame
    /\ m_rendering_curr_frame' = s.m_rendering_curr_frame
    /\ m_rendering_curr_voice' = s.m_rendering_curr_voice
    /\ m_prepared' = s.m_prepared
    /\ m_buf' = s.m_buf
    /\ m_output_volume' = s.m_output_volume
    /\ m_vpb_base_addr' = s.m_vpb_base_addr
    /\ m_output_lbuf_addr' = s.m_output_lbuf_addr
    /\ m_output_rbuf_addr' = s.m_output_rbuf_addr
    /\ obs' = s.obs

\* void SetMailState(MailState new_state)
SetMailState(s, new_state) ==
    [s EXCEPT !.m_mail_current_state = new_state]

\* A RenderingInProgress that is never true.
RenderingInProgress_Never(s) == FALSE

\* A RenderingInProgress that stops one frame early.
RenderingInProgress_OffByOne(s) ==
    /\ s.m_rendering_curr_frame # s.m_rendering_requested_frames
    /\ s.m_rendering_curr_frame + 1 # s.m_rendering_requested_frames

\* bool RenderingInProgress() const
RenderingInProgress(s) ==
    s.m_rendering_curr_frame # s.m_rendering_requested_frames

\* Read32 called by command execution: the new state and the value read.
ExecRead32(s) ==
    LET r == Read32(s.m_read_offset, s.m_write_offset, s.m_cmd_buffer)
    IN [ st  |-> [s EXCEPT !.m_read_offset = r.read_offset,
                           !.obs.exec_reads = @ + 1],
         res |-> r.res ]

\* Write32 called by HandleMail.
MailWrite32(s, val) ==
    LET w == Write32(s.m_write_offset, s.m_cmd_buffer, val)
    IN [s EXCEPT !.m_cmd_buffer = w.cmd_buffer,
                 !.m_write_offset = w.write_offset]

\* void SendCommandAck(CommandAck ack_type, u16 sync_value): the mails sent
\* to the CPU are counted by kind.
SendCommandAck(s, ack_type) ==
    IF ack_type = "STANDARD"
    THEN [s EXCEPT !.obs.std_acks = @ + 1]
    ELSE [s EXCEPT !.obs.done_acks = @ + 1,
                   !.obs.done_ok =
                       /\ @
                       /\ s.m_mail_current_state = "WAITING"
                       /\ s.obs.frames_finalized
                            = s.m_rendering_requested_frames]

\* void SetOutputVolume(u16 volume)
SetOutputVolume(s, volume) == [s EXCEPT !.m_output_volume = volume % U16]

\* void SetVPBBaseAddress(u32 addr)
SetVPBBaseAddress(s, addr) == [s EXCEPT !.m_vpb_base_addr = addr]

\* void SetOutputLeftBufferAddr(u32 addr) and SetOutputRightBufferAddr
SetOutputBufferAddrs(s, left, right) ==
    [s EXCEPT !.m_output_lbuf_addr = left, !.m_output_rbuf_addr = right]

\* An ordinary command that is not acknowledged.
CommandDone_NoAck(s) == s

\* An ordinary command has run: it is acknowledged with a STANDARD ack.
CommandDone(s) == SendCommandAck(s, "STANDARD")

\* A begin-frame-render that keeps the current frame and voice.
BeginRender_NoReset(s, frames, voices) ==
    SetMailState(
        [s EXCEPT !.m_rendering_requested_frames = frames,
                  !.m_rendering_voices_per_frame = voices % U16,
                  !.m_cmd_can_execute = FALSE,
                  !.obs.renders_started = @ + 1,
                  !.obs.frames_finalized = 0,
                  !.obs.added = << >>],
        "RENDERING")

\* begin-frame-render: captures the requested frame count and the voices per
\* frame, resets the current frame and voice, and hijacks the mail flow.
BeginRender(s, frames, voices) ==
    SetMailState(
        [s EXCEPT !.m_rendering_requested_frames = frames,
                  !.m_rendering_voices_per_frame = voices % U16,
                  !.m_rendering_curr_frame = 0,
                  !.m_rendering_curr_voice = 0,
                  !.m_cmd_can_execute = FALSE,
                  !.obs.renders_started = @ + 1,
                  !.obs.frames_finalized = 0,
                  !.obs.added = << >>],
        "RENDERING")

\* void RunPendingCommands(): runs commands, oldest first, until the command
\* buffer holds none or a render-frame command takes over.
RECURSIVE RunPendingCommands(_)
RunPendingCommands(s) ==
    IF \/ s.m_mail_current_state # "WAITING"
       \/ ~s.m_cmd_can_execute
       \/ s.m_pending_commands_count = 0
    THEN s
    ELSE
      LET s0 == [s EXCEPT !.m_pending_commands_count = @ - 1,
                          !.obs.cmds_popped = @ + 1]
          c  == ExecRead32(s0)
          p1 == ExecRead32(c.st)
          p2 == ExecRead32(p1.st)
          p3 == ExecRead32(p2.st)
      IN CASE c.res = OP_SET_TABLES ->
                RunPendingCommands(CommandDone(p3.st))
           [] c.res = OP_SET_OUTPUT_VOLUME ->
                RunPendingCommands(CommandDone(SetOutputVolume(p1.st, p1.res)))
           [] c.res = OP_SET_VPB_BASE ->
                RunPendingCommands(
                    CommandDone(SetVPBBaseAddress(p1.st, p1.res)))
           [] c.res = OP_SET_OUTPUT_BUFS ->
                RunPendingCommands(
                    CommandDone(SetOutputBufferAddrs(p2.st, p1.res, p2.res)))
           [] c.res = OP_RENDER ->
                BeginRender(p2.st, p1.res, p2.res)
           [] OTHER ->
                SetMailState(c.st, "HALTED")


Pow2(n) == CASE n = 0 -> 1 [] n = 1 -> 2 [] n = 2 -> 4 [] n = 3 -> 8
             [] n = 4 -> 16 [] n = 5 -> 32 [] n = 6 -> 64 [] n = 7 -> 128
             [] n = 8 -> 256 [] n = 9 -> 512 [] n = 10 -> 1024
             [] n = 11 -> 2048 [] n = 12 -> 4096 [] n = 13 -> 8192
             [] n = 14 -> 16384 [] n = 15 -> 32768
             [] n = 16 -> 65536

\* The skip flag of a voice: bit (voice_id mod 16) of the flags of its group.
IsSkipped(s, voice_id) ==
    (s.m_sync_voice_skip_flags[(voice_id \div VoicesPerSync) % SkipFlagsSize]
        \div Pow2(voice_id % VoicesPerSync)) % 2 = 1

\* A voice the rendering pass may touch: admitted by the sync mails so far.
IsAdmitted(s, voice_id) == voice_id < s.m_sync_max_voice_id

\* A PrepareFrame that clears the buses whether or not a frame is prepared.
PrepareFrame_AlwaysClears(s) ==
    [s EXCEPT !.m_buf = [b \in Buses |-> << >>], !.m_prepared = TRUE]

\* void ZeldaAudioRenderer::PrepareFrame(): clears the eight buses and marks
\* the frame prepared; a no-op when a frame is prepared.
PrepareFrame(s) ==
    IF s.m_prepared
    THEN s
    ELSE [s EXCEPT !.m_buf = [b \in Buses |-> << >>], !.m_prepared = TRUE]

\* void ZeldaAudioRenderer::AddVoice(u16 voice_id)
AddVoice(s, voice_id) ==
    [s EXCEPT !.m_buf      = [b \in Buses |-> Append(@[b], voice_id)],
              !.obs.added  = Append(@, voice_id),
              !.obs.add_ok = @ /\ IsAdmitted(s, voice_id)
                               /\ ~IsSkipped(s, voice_id),
              !.obs.work   = @ + 1]

\* void ZeldaAudioRenderer::FinalizeFrame(): marks the frame unprepared.
FinalizeFrame(s) ==
    [s EXCEPT !.m_prepared = FALSE,
              !.obs.frames_finalized = @ + 1,
              !.obs.added = << >>,
              !.obs.work = @ + 1]

\* The requested frames are rendered: DONE_RENDERING is sent, control returns
\* to WAITING and the commands of the buffer may run again.
FinishRender(s) ==
    RunPendingCommands(
        SendCommandAck(
            SetMailState(
                [s EXCEPT !.m_cmd_can_execute = TRUE,
                          !.obs.renders_completed = @ + 1],
                "WAITING"),
            "DONE_RENDERING"))

\* The first voice from voice_id on that is not an admitted, skipped voice.
RECURSIVE SkipVoices(_, _)
SkipVoices(s, voice_id) ==
    IF /\ voice_id < s.m_rendering_voices_per_frame
       /\ IsAdmitted(s, voice_id)
       /\ IsSkipped(s, voice_id)
    THEN SkipVoices(s, voice_id + 1)
    ELSE voice_id

\* A RenderAudio that renders the current voice whether or not a sync mail
\* admitted it and whatever its skip flag.
RenderAudio_Ungated(s) ==
    IF ~RenderingInProgress(s)
    THEN FinishRender(s)
    ELSE
      LET s1 == PrepareFrame(s)
          v  == s1.m_rendering_curr_voice
      IN IF v < s1.m_rendering_voices_per_frame
         THEN [AddVoice(s1, v) EXCEPT !.m_rendering_curr_voice = v + 1]
         ELSE LET s2 == [FinalizeFrame(s1) EXCEPT
                            !.m_rendering_curr_voice = 0,
                            !.m_rendering_curr_frame = @ + 1]
              IN IF RenderingInProgress(s2) THEN s2 ELSE FinishRender(s2)

\* A RenderAudio that renders two voices per call when it can.
RenderAudio_TwoVoices(s) ==
    IF ~RenderingInProgress(s)
    THEN FinishRender(s)
    ELSE
      LET s1 == PrepareFrame(s)
          v  == SkipVoices(s1, s1.m_rendering_curr_voice)
          w  == SkipVoices(s1, v + 1)
      IN IF v < s1.m_rendering_voices_per_frame
         THEN IF IsAdmitted(s1, v)
              THEN IF w < s1.m_rendering_voices_per_frame /\ IsAdmitted(s1, w)
                   THEN [AddVoice(AddVoice(s1, v), w) EXCEPT
                            !.m_rendering_curr_voice = w + 1]
                   ELSE [AddVoice(s1, v) EXCEPT
                            !.m_rendering_curr_voice = v + 1]
              ELSE [s1 EXCEPT !.m_rendering_curr_voice = v]
         ELSE LET s2 == [FinalizeFrame(s1) EXCEPT
                            !.m_rendering_curr_voice = 0,
                            !.m_rendering_curr_frame = @ + 1]
              IN IF RenderingInProgress(s2) THEN s2 ELSE FinishRender(s2)

\* void RenderAudio(): one unit of work of the rendering pass, the next
\* voice of the frame or the finalize step.
RenderAudio(s) ==
    IF ~RenderingInProgress(s)
    THEN FinishRender(s)
    ELSE
      LET s1 == PrepareFrame(s)
          v  == SkipVoices(s1, s1.m_rendering_curr_voice)
      IN IF v < s1.m_rendering_voices_per_frame
         THEN IF IsAdmitted(s1, v)
              THEN [AddVoice(s1, v) EXCEPT !.m_rendering_curr_voice = v + 1]
              ELSE [s1 EXCEPT !.m_rendering_curr_voice = v]
         ELSE LET s2 == [FinalizeFrame(s1) EXCEPT
                            !.m_rendering_curr_voice = 0,
                            !.m_rendering_curr_frame = @ + 1]
              IN IF RenderingInProgress(s2) THEN s2 ELSE FinishRender(s2)

\* void Update(): advances the rendering by one unit of work while the
\* state is RENDERING, and does nothing otherwise.
Update(s) ==
    LET s0 == [s EXCEPT !.obs.last_call = "Update", !.obs.work = 0]
    IN IF s0.m_mail_current_state = "RENDERING"
       THEN RenderAudio(s0)
       ELSE s0

\* HandleMail, state WAITING: the opcode of a multi-word command starts the
\* command (its opcode is the first word of the command in the buffer); any
\* other mail is a protocol violation.
HandleMailWaiting(s, mail) ==
    IF IsCommandOpcode(mail)
    THEN MailWrite32(
             [SetMailState(s, "WRITING_CMD") EXCEPT
                 !.m_mail_expected_cmd_mails = ExpectedParams(mail),
                 !.obs.opcode = mail],
             mail)
    ELSE SetMailState(s, "HALTED")

\* A WRITING_CMD state that halts on a mail that is an opcode.
HandleMailWritingCmd_HaltOnOpcode(s, mail) ==
    IF IsCommandOpcode(mail)
    THEN SetMailState(s, "HALTED")
    ELSE
      LET s1 == [MailWrite32(s, mail) EXCEPT
                    !.m_mail_expected_cmd_mails = @ - 1]
      IN IF s1.m_mail_expected_cmd_mails = 0
         THEN RunPendingCommands(
                  SetMailState(
                      [s1 EXCEPT !.m_pending_commands_count = @ + 1],
                      "WAITING"))
         ELSE s1

\* HandleMail, state WRITING_CMD: the mail is appended to the command
\* buffer; with the last expected mail the command is queued, the state
\* returns to WAITING and the pending commands run.
HandleMailWritingCmd(s, mail) ==
    LET s1 == [MailWrite32(s, mail) EXCEPT
                  !.m_mail_expected_cmd_mails = @ - 1]
    IN IF s1.m_mail_expected_cmd_mails = 0
       THEN RunPendingCommands(
                SetMailState(
                    [s1 EXCEPT !.m_pending_commands_count = @ + 1],
                    "WAITING"))
       ELSE s1

\* HandleMail, state RENDERING: a sync mail raises the max voice id admitted
\* and sets the skip flags of its group of voices; any other mail is a
\* protocol violation.
HandleMailRendering(s, mail) ==
    IF IsSyncMail(mail)
    THEN [s EXCEPT
            !.m_sync_max_voice_id =
                IF (SyncIndex(mail) + 1) * VoicesPerSync > @
                THEN (SyncIndex(mail) + 1) * VoicesPerSync ELSE @,
            !.m_sync_voice_skip_flags[SyncIndex(mail)] = SyncFlags(mail)]
    ELSE SetMailState(s, "HALTED")

\* A HALTED state that takes mail as WAITING does.
HandleMailHalted_AsWaiting(s, mail) ==
    HandleMailWaiting([s EXCEPT !.obs.halted_mails = @ + 1], mail)

\* HandleMail, state HALTED: the mail changes nothing.
HandleMailHalted(s, mail) ==
    [s EXCEPT !.obs.halted_mails = @ + 1]

\* void HandleMail(u32 mail)
HandleMail(s, mail) ==
    LET s0 == [s EXCEPT !.obs.n_mails = @ + 1,
                        !.obs.last_call = "HandleMail",
                        !.obs.last_mail = mail]
    IN CASE s0.m_mail_current_state = "WAITING" ->
              HandleMailWaiting(s0, mail)
         [] s0.m_mail_current_state = "WRITING_CMD" ->
              HandleMailWritingCmd(s0, mail)
         [] s0.m_mail_current_state = "RENDERING" ->
              HandleMailRendering(s0, mail)
         [] s0.m_mail_current_state = "HALTED" ->
              HandleMailHalted(s0, mail)

----------------------------------------------------------------------------
(* The protocol driven by any mail and any tick *)

\* HandleMail calls of a run
MaxMails == 6

\* Frames of one render-frame command that the ticks of a run render
MaxFrames == 2

Mails == { 0, OP_SET_TABLES, OP_RENDER, OP_SET_OUTPUT_VOLUME,
           SyncMail(0, 0), SyncMail(0, 2), SyncMail(1, 0) }

Init ==
    /\ InitUCode
    /\ InitBuf
    /\ InitObs
    /\ InitMixIdle
    /\ InitPulse
    /\ fifo = FifoObserver(0)

RecvMail ==
    /\ obs.n_mails < MaxMails
    /\ \E mail \in Mails : Install(HandleMail(Cur, mail))
    /\ UNCHANGED << fifo, mix, pa >>

Tick ==
    /\ m_mail_current_state = "RENDERING"
         => m_rendering_curr_frame < MaxFrames
    /\ Install(Update(Cur))
    /\ UNCHANGED << fifo, mix, pa >>

Next == RecvMail \/ Tick

Spec == Init /\ [][Next]_vars


----------------------------------------------------------------------------
(* The protocol driven by well-formed mail: every command gets the          *)
(* parameter mails its opcode expects, and a render-frame command gets the  *)
(* ticks and the sync mails it needs.                                       *)

\* Commands of a well-formed run
MaxCommands == 2

LiveOpcodes == { OP_SET_TABLES, OP_RENDER, OP_SET_OUTPUT_VOLUME }

LiveFrames == 0..MaxFrames

LiveVoices == { 0, 2, VoicesPerSync + 1 }

LiveSkipFlags == { 0, 2 }

\* The values of the next parameter of the command being written.
LiveParams ==
    IF obs.opcode = OP_RENDER
    THEN IF m_mail_expected_cmd_mails = 2 THEN LiveFrames ELSE LiveVoices
    ELSE { 0, OP_RENDER, SyncMail(0, 0) }

\* The unit of work the rendering pass can do now: the next voice that is
\* not skipped is admitted, or every voice of the frame is done.
WorkReady ==
    /\ m_rendering_curr_frame # m_rendering_requested_frames
    /\ LET v == SkipVoices(Cur, m_rendering_curr_voice)
       IN v < m_rendering_voices_per_frame => v < m_sync_max_voice_id

\* The rendering pass waits for the sync mail that admits its next voice.
SyncWanted ==
    /\ m_mail_current_state = "RENDERING"
    /\ m_rendering_curr_frame # m_rendering_requested_frames
    /\ ~WorkReady

\* An Update in state RENDERING has work to do, or the render to finish.
TickWanted ==
    /\ m_mail_current_state = "RENDERING"
    /\ m_rendering_curr_frame < MaxFrames
    /\ WorkReady \/ m_rendering_curr_frame = m_rendering_requested_frames

LiveOpcode ==
    /\ m_mail_current_state = "WAITING"
    /\ obs.cmds_popped < MaxCommands
    /\ \E mail \in LiveOpcodes : Install(HandleMail(Cur, mail))
    /\ UNCHANGED << fifo, mix, pa >>

LiveParam ==
    /\ m_mail_current_state = "WRITING_CMD"
    /\ \E mail \in LiveParams : Install(HandleMail(Cur, mail))
    /\ UNCHANGED << fifo, mix, pa >>

\* The sync mail that admits the voice the rendering pass waits for.
LiveSync ==
    /\ SyncWanted
    /\ \E flags \in LiveSkipFlags :
          Install(HandleMail(
              Cur,
              SyncMail(SkipVoices(Cur, m_rendering_curr_voice)
                          \div VoicesPerSync,
                       flags)))
    /\ UNCHANGED << fifo, mix, pa >>

NextLive == LiveOpcode \/ LiveParam \/ LiveSync \/ Tick

\* Weak fairness of an action A whose steps are possible exactly in the
\* states of Wanted, that is WF_vars(A) with ENABLED <<A>>_vars written as
\* the guard of A: A is not wanted for ever without being taken.
LiveFairness ==
    /\ []<>(m_mail_current_state # "WRITING_CMD") \/ []<><<LiveParam>>_vars
    /\ []<>(~SyncWanted) \/ []<><<LiveSync>>_vars
    /\ []<>(~TickWanted) \/ []<><<Tick>>_vars

SpecLive == Init /\ [][NextLive]_vars /\ LiveFairness

\* WAITING, the command buffer empty and no render in progress.
MailIdle ==
    /\ m_mail_current_state = "WAITING"
    /\ m_read_offset = m_write_offset
    /\ m_pending_commands_count = 0
    /\ m_rendering_curr_frame = m_rendering_requested_frames

----------------------------------------------------------------------------
(* C4 *)

\* C4: under well-formed mail (each command receives the parameter mails it
\* expects, each render-frame command the ticks and sync mails it needs) the
\* mailbox state is, again and again, WAITING with the command buffer empty
\* and no render in progress: whatever was sent, the protocol comes back to
\* that state.
C4_ReturnsToWaiting == []<>MailIdle

\* Back to WAITING after an ordinary command and a render-frame command of
\* 2 frames of 17 voices, which needed two sync mails.
C4_Witness ==
    /\ MailIdle
    /\ obs.std_acks = 1
    /\ obs.done_acks = 1
    /\ obs.frames_finalized = 2
    /\ m_rendering_voices_per_frame = VoicesPerSync + 1
    /\ m_sync_max_voice_id = 2 * VoicesPerSync

\* A render-frame command has started and not all of its requested frames
\* are rendered and finalized.
RenderOpen ==
    /\ obs.renders_started > 0
    /\ obs.frames_finalized < m_rendering_requested_frames

\* The voices of a sequence are in strictly increasing order.
StrictlyIncreasing(seq) ==
    \A i \in 1..(Len(seq) - 1) : seq[i] < seq[i + 1]

----------------------------------------------------------------------------
(* C5 *)

\* C5: once the mailbox state is HALTED, no HandleMail or Update call, for
\* any mail, changes the mailbox state, writes to or reads from the command
\* buffer, sends an acknowledgment, or starts or advances rendering.
C5_HaltedAbsorbing ==
    [][ m_mail_current_state = "HALTED"
          => /\ UNCHANGED << ucodeVars, bufVars >>
             /\ obs'.std_acks = obs.std_acks
             /\ obs'.done_acks = obs.done_acks
             /\ obs'.exec_reads = obs.exec_reads
             /\ obs'.cmds_popped = obs.cmds_popped
             /\ obs'.renders_started = obs.renders_started
             /\ obs'.renders_completed = obs.renders_completed
             /\ obs'.frames_finalized = obs.frames_finalized
             /\ obs'.added = obs.added
             /\ obs'.last_call = "Update" => obs'.work = 0 ]_vars

\* Halted in the middle of a render-frame command, with a mail and then an
\* Update received in state HALTED.
C5_Witness ==
    /\ m_mail_current_state = "HALTED"
    /\ obs.halted_mails >= 1
    /\ obs.last_call = "Update"
    /\ obs.renders_started = 1
    /\ obs.renders_completed = 0
    /\ m_rendering_curr_frame # m_rendering_requested_frames

----------------------------------------------------------------------------
(* C6 *)

\* The state is WRITING_CMD for OP_SET_TABLES (3 parameter mails), 2 of them
\* are received, and this step is HandleMail of another opcode.
TruncatedCommandStep ==
    /\ m_mail_current_state = "WRITING_CMD"
    /\ m_mail_expected_cmd_mails = 1
    /\ obs.opcode = OP_SET_TABLES
    /\ ExpectedParams(obs.opcode) = 3
    /\ obs'.n_mails = obs.n_mails + 1
    /\ IsCommandOpcode(obs'.last_mail)
    /\ obs'.last_mail # OP_SET_TABLES

----------------------------------------------------------------------------
(* C7 *)

\* C7: the DONE_RENDERING acks sent are as many as the render-frame commands
\* that have completed (started, and no longer holding back command
\* execution), each sent with the state back to WAITING and every requested
\* frame of the command rendered and finalized; the STANDARD acks sent are
\* as many as the ordinary commands taken from the buffer and executed, so
\* a mail that is only buffered is not acknowledged.
C7_AckCounts ==
    /\ obs.done_acks =
          obs.renders_started - (IF m_cmd_can_execute THEN 0 ELSE 1)
    /\ obs.done_ok
    /\ (obs.done_acks > 0 /\ m_cmd_can_execute)
          => obs.frames_finalized = m_rendering_requested_frames
    /\ obs.std_acks = obs.cmds_popped - obs.renders_started
    /\ m_pending_commands_count = 0
    /\ m_read_offset # m_write_offset
          => m_mail_current_state \in {"WRITING_CMD", "HALTED"}

\* A render-frame command of 2 frames has completed after an ordinary
\* command: one ack of each kind.
C7_Witness ==
    /\ obs.done_acks = 1
    /\ obs.std_acks = 1
    /\ obs.frames_finalized = 2
    /\ m_rendering_requested_frames = 2
    /\ m_mail_current_state = "WAITING"

----------------------------------------------------------------------------
(* C8 *)

----------------------------------------------------------------------------
(* C9 *)

\* C9: every AddVoice is for a voice below the max voice id admitted by the
\* sync mails so far and whose skip flag is not set; the voices added to a
\* frame are in strictly increasing order (so each at most once) and below
\* the voices per frame; and the max voice id admitted changes only in the
\* HandleMail of a sync mail received in state RENDERING.
C9_VoiceSyncGating ==
    /\ [](/\ obs.add_ok
          /\ StrictlyIncreasing(obs.added)
          /\ \A i \in 1..Len(obs.added) :
                /\ obs.added[i] < m_rendering_voices_per_frame
                /\ obs.added[i] < m_sync_max_voice_id)
    /\ [][ m_sync_max_voice_id' # m_sync_max_voice_id
             => /\ m_mail_current_state = "RENDERING"
                /\ obs'.last_call = "HandleMail"
                /\ obs'.n_mails = obs.n_mails + 1
                /\ IsSyncMail(obs'.last_mail) ]_vars

\* A frame of 3 voices whose voice 1 is skipped: voices 0 and 2 are added.
C9_Witness ==
    /\ m_mail_current_state = "RENDERING"
    /\ m_rendering_voices_per_frame = 3
    /\ obs.added = << 0, 2 >>
    /\ m_sync_voice_skip_flags[0] = 2

----------------------------------------------------------------------------
(* C10 *)

----------------------------------------------------------------------------
(* C14 *)

\* C14: PrepareFrame clears the eight buses only when no frame is prepared
\* and is a no-op when one is, so while a frame is prepared every bus holds
\* the contributions of exactly the voices added to that frame, those of the
\* earlier calls kept and those of the frame before gone; FinalizeFrame
\* marks the frame unprepared.
C14_BusLifecycle ==
    /\ [](m_prepared => \A b \in Buses : m_buf[b] = obs.added)
    /\ [][ obs'.frames_finalized = obs.frames_finalized + 1
             => ~m_prepared' ]_vars

\* The second frame of a render-frame command, two voices added to it:
\* PrepareFrame has run five times, and cleared the buses twice.
C14_Witness ==
    /\ m_prepared
    /\ obs.frames_finalized = 1
    /\ obs.added = << 0, 1 >>
    /\ \A b \in Buses : m_buf[b] = << 0, 1 >>

----------------------------------------------------------------------------
(* C16 *)

\* C16: a render-frame command resets the current frame and the current
\* voice to zero, and from then on current frame <= requested frames and
\* current voice <= voices per frame; the current frame is the number of
\* frames finalized, so RenderingInProgress is false exactly when the
\* requested frames are rendered, and never for a request of zero frames.
C16_ProgressInBounds ==
    /\ [](/\ m_rendering_curr_frame <= m_rendering_requested_frames
          /\ m_rendering_curr_voice <= m_rendering_voices_per_frame
          /\ obs.renders_started > 0
                => /\ m_rendering_curr_frame = obs.frames_finalized
                   /\ RenderingInProgress(Cur)
                         <=> obs.frames_finalized
                                 # m_rendering_requested_frames
          /\ m_rendering_requested_frames = 0 => ~RenderingInProgress(Cur))
    /\ [][ obs'.renders_started = obs.renders_started + 1
             => /\ m_rendering_curr_frame' = 0
                /\ m_rendering_curr_voice' = 0 ]_vars

\* The last voice of the last requested frame is rendered, the finalize
\* step still to do.
C16_Witness ==
    /\ m_mail_current_state = "RENDERING"
    /\ m_rendering_requested_frames = 2
    /\ m_rendering_curr_frame = 1
    /\ m_rendering_voices_per_frame = 2
    /\ m_rendering_curr_voice = 2

----------------------------------------------------------------------------
(* The buffer utility functions of ZeldaAudioRenderer                       *)

\* Samples of a mixing buffer: std::array<s16, 0x50>, cut to MixLen samples
MixLen == 2

\* Voices mixed into one buffer
MaxVoicesMixed == 2

S16Min == -32768

S16Max == 32767

S32Max == 2147483647

S32Min == -S32Max - 1

\* MathUtil::Clamp(&tmp, lo, hi)
Clamp(x, lo, hi) == IF x < lo THEN lo ELSE IF x > hi THEN hi ELSE x

\* A (u32) cast that zero-extends the 16 bits of the sample.
U32OfS16_ZeroExtend(x) == << 0, (x + U16) % U16 >>

\* (u32)(*buf)[i]: the s16 sample is sign-extended to 32 bits. A u32 is the
\* pair << high 16 bits, low 16 bits >>.
U32OfS16(x) == IF x < 0 THEN << U16 - 1, x + U16 >> ELSE << 0, x >>

\* a * b for a, b < 2^16, as << high 16 bits, low 16 bits >>.
Mul16(a, b) ==
    LET x == a * (b % 256)
        y == a * (b \div 256)
        t == x + 256 * (y % 256)
    IN << y \div 256 + t \div U16, t % U16 >>

\* (u32) a * (u32) v: the product modulo 2^32, v being the (u32) of a u16.
MulU32(a, v) ==
    LET lo == Mul16(a[2], v)
        hi == Mul16(a[1], v)
    IN << (lo[1] + hi[2]) % U16, lo[2] >>

\* s32 tmp = <u32>: the 32 bits read as a two's complement number.
S32OfU32(w) ==
    IF w[1] >= 32768 THEN (w[1] - U16) * U16 + w[2] ELSE w[1] * U16 + w[2]

\* x >> n of a signed x: the arithmetic shift.
ShiftRight(x, n) == x \div Pow2(n)

\* The body of the loop of ApplyVolumeInPlace<N, B>.
ApplyVolumeSample(sample, vol, B) ==
    Clamp(ShiftRight(S32OfU32(MulU32(U32OfS16(sample), vol)), 16 - B),
          S16Min, S16Max)

\* template <size_t N, size_t B>
\* void ApplyVolumeInPlace(std::array<s16, N>* buf, u16 vol)
ApplyVolumeInPlace(buf, vol, B) ==
    [i \in DOMAIN buf |-> ApplyVolumeSample(buf[i], vol, B)]

\* (s16) of an int: the low 16 bits read as a two's complement number.
S16OfInt(x) == ((x + 32768) % U16) - 32768

\* a + b leaves the range of s32.
AddOverflows(a, b) ==
    \/ b > 0 /\ a > S32Max - b
    \/ b < 0 /\ a < S32Min - b

\* a + b modulo 2^32, read as a two's complement number.
WrapAdd(a, b) ==
    IF ~AddOverflows(a, b) THEN a + b
    ELSE IF b > 0 THEN (a + S32Min) + (b + S32Min)
    ELSE (a - S32Min) + (b - S32Min)

\* What a build makes of a signed overflow of vol += step, which is
\* undefined: the sum wraps, or the call traps.
OverflowOutcomes == { "wrap", "trap" }

\* ((vol >> 16) * src[i]) >> 16
RampContribution(vol, sample) ==
    ShiftRight(ShiftRight(vol, 16) * sample, 16)

\* The loop of AddBuffersWithVolumeRamp from sample i on.
RECURSIVE RampLoop(_, _, _, _, _, _, _)
RampLoop(dst, src, vol, step, i, scales, ub) ==
    IF i > Len(dst)
    THEN [ dst |-> dst, ret |-> vol, trapped |-> FALSE, scales |-> scales ]
    ELSE LET d  == [dst EXCEPT
                      ![i] = S16OfInt(@ + RampContribution(vol, src[i]))]
             sc == Append(scales, ShiftRight(vol, 16))
         IN IF AddOverflows(vol, step) /\ ub = "trap"
            THEN [ dst |-> d, ret |-> vol, trapped |-> TRUE, scales |-> sc ]
            ELSE RampLoop(d, src, WrapAdd(vol, step), step, i + 1, sc, ub)

\* An AddBuffersWithVolumeRamp that adds the source samples as they are.
RECURSIVE UnscaledLoop(_, _, _)
UnscaledLoop(dst, src, i) ==
    IF i > Len(dst) THEN dst
    ELSE UnscaledLoop([dst EXCEPT ![i] = S16OfInt(@ + src[i])], src, i + 1)

AddBuffersWithVolumeRamp_Unscaled(dst, src, vol, step, ub) ==
    [ dst |-> UnscaledLoop(dst, src, 1), ret |-> vol, trapped |-> FALSE,
      scales |-> << >> ]

\* template <size_t N>
\* s32 AddBuffersWithVolumeRamp(std::array<s16, N>* dst,
\*                              const std::array<s16, N>& src,
\*                              s32 vol, s32 step)
AddBuffersWithVolumeRamp(dst, src, vol, step, ub) ==
    IF vol = 0 /\ step = 0
    THEN [ dst |-> dst, ret |-> vol, trapped |-> FALSE, scales |-> << >> ]
    ELSE RampLoop(dst, src, vol, step, 1, << >>, ub)

\* Inputs of the calls
Samples == { S16Min, -12345, -1, 0, 1, 12345, S16Max }

Volumes == { 0, 1, 16384, 32767, 32768, 65535 }

DstSamples == { S16Min, 100, S16Max }

SrcSamples == { S16Min, -3, S16Max }

RampVolumes == { 0, U16, 32767 * U16, S32Max, S32Min }

RampSteps == { 0, 1, U16, -U16 }

MixCall(kind, buf, src, vol, step, B) ==
    [ kind |-> kind, calls |-> 0, orig |-> buf, in |-> buf, buf |-> buf,
      src |-> src, vol |-> vol, step |-> step, B |-> B,
      ret |-> 0, trapped |-> FALSE, scales |-> << >> ]

InitMix ==
    /\ InitUCode
    /\ InitBuf
    /\ InitObs
    /\ InitPulse
    /\ fifo = FifoObserver(0)
    /\ \/ \E buf \in [1..MixLen -> Samples], vol \in Volumes, B \in {1, 4} :
             mix = MixCall("volume", buf, buf, vol, 0, B)
       \/ \E dst \in [1..MixLen -> DstSamples], src \in [1..MixLen -> SrcSamples],
             vol \in RampVolumes, step \in RampSteps :
             mix = MixCall("ramp", dst, src, vol, step, 0)

\* ApplyVolumeInPlace_1_15(&buf, vol) or ApplyVolumeInPlace_4_12(&buf, vol)
ApplyVolumeCall ==
    /\ mix.kind = "volume"
    /\ mix.calls = 0
    /\ mix' = [mix EXCEPT
                 !.calls = 1,
                 !.buf   = ApplyVolumeInPlace(mix.buf, mix.vol, mix.B)]
    /\ UNCHANGED << ucodeVars, bufVars, fifo, obs, pa >>

\* AddBuffersWithVolumeRamp(&buf, src, vol, step): one voice more is mixed
\* into the buffer.
AddBuffersCall ==
    /\ mix.kind = "ramp"
    /\ mix.calls < MaxVoicesMixed
    /\ ~mix.trapped
    /\ \E ub \in OverflowOutcomes :
          LET r == AddBuffersWithVolumeRamp(mix.buf, mix.src, mix.vol,
                                            mix.step, ub)
          IN mix' = [mix EXCEPT
                       !.calls   = @ + 1,
                       !.in      = mix.buf,
                       !.buf     = r.dst,
                       !.ret     = r.ret,
                       !.trapped = r.trapped,
                       !.scales  = r.scales]
    /\ UNCHANGED << ucodeVars, bufVars, fifo, obs, pa >>

NextMix == ApplyVolumeCall \/ AddBuffersCall

SpecMix == InitMix /\ [][NextMix]_vars

\* vol + k * step modulo 2^32.
RECURSIVE RampVolume(_, _, _)
RampVolume(vol, step, k) ==
    IF k = 0 THEN vol ELSE RampVolume(WrapAdd(vol, step), step, k - 1)

----------------------------------------------------------------------------
(* C11 *)

\* C11: AddBuffersWithVolumeRamp called with vol = 0 and step = 0 leaves
\* every sample of the destination buffer unchanged, whatever the source
\* and the destination hold, and returns 0.
C11_ZeroVolumeFastPath ==
    (mix.kind = "ramp" /\ mix.calls > 0 /\ mix.vol = 0 /\ mix.step = 0)
        => /\ mix.buf = mix.in
           /\ mix.buf = mix.orig
           /\ mix.ret = 0
           /\ ~mix.trapped

\* Two calls with vol = 0 and step = 0, the source and the destination
\* holding samples that are not 0.
C11_Witness ==
    /\ mix.kind = "ramp"
    /\ mix.calls = 2
    /\ mix.vol = 0
    /\ mix.step = 0
    /\ \A i \in 1..MixLen : mix.src[i] = S16Max /\ mix.orig[i] = S16Min

----------------------------------------------------------------------------
(* C12 *)

\* C12: ApplyVolumeInPlace stores, for every sample s and volume v, the
\* product s * v of the two numbers shifted right arithmetically by 15
\* (format 1.15) or by 12 (format 4.12) and clamped to [-32768, 32767]; in
\* format 1.15 the volume 0x8000 leaves every sample unchanged and the
\* volume 0 makes every sample 0.
C12_FixedPointVolume ==
    (mix.kind = "volume" /\ mix.calls = 1)
        => /\ \A i \in 1..MixLen :
                 mix.buf[i] =
                     Clamp((mix.orig[i] * mix.vol)
                               \div (IF mix.B = 1 THEN 32768 ELSE 4096),
                           -32768, 32767)
           /\ (mix.B = 1 /\ mix.vol = 32768) => mix.buf = mix.orig
           /\ mix.vol = 0 => \A i \in 1..MixLen : mix.buf[i] = 0

\* The volume 0x8000 applied in format 1.15 to a buffer of negative samples.
C12_Witness ==
    /\ mix.kind = "volume"
    /\ mix.calls = 1
    /\ mix.B = 1
    /\ mix.vol = 32768
    /\ mix.orig[1] = -12345
    /\ mix.buf[1] = -12345
    /\ mix.orig[2] = S16Min

----------------------------------------------------------------------------
(* C13 *)

\* C13: the sample AddBuffersWithVolumeRamp stores in the destination is the
\* sum of the sample the destination held and the contribution of the
\* source sample, clamped to [-32768, 32767], for every voice mixed in.
C13_ClampedMixing ==
    (mix.kind = "ramp" /\ mix.calls > 0 /\ ~mix.trapped)
        => \A i \in 1..Len(mix.scales) :
              mix.buf[i] =
                  Clamp(mix.in[i] + (mix.scales[i] * mix.src[i]) \div U16,
                        -32768, 32767)

\* A sum that leaves the range of s16: 32767 + 16383.
C13_Witness ==
    /\ mix.kind = "ramp"
    /\ mix.calls = 1
    /\ mix.in[1] = S16Max
    /\ mix.src[1] = S16Max
    /\ mix.vol = 32767 * U16
    /\ mix.step = 0
    /\ mix.buf[1] = S16Max + 16383 - U16

----------------------------------------------------------------------------
(* C15 *)

----------------------------------------------------------------------------
(* The PulseAudio sound stream (AudioCommon/PulseAudioStream.cpp): the      *)
(* caller of Start and Stop, and the audio thread running SoundLoop.        *)

\* Start calls of a run
MaxStarts == 2

\* Underflow callbacks of one connected stream
MaxUnderflows == 2

\* Frames one write callback asks for
MaxWantedFrames == 2

\* Frames the time-stretcher holds
MaxHeld == 3

Min(a, b) == IF a < b THEN a ELSE b

\* Results of a PulseAudio call: not negative, or negative.
PaResults == { 0, -1 }

\* pa_context_get_state(c)
ContextStates == { "AUTHORIZING", "READY", "FAILED", "TERMINATED" }

\* m_mixer->GetCurrentSpeed(), in percent
Rates == { 0, 100, 2000 }

\* The length of a write callback: whole frames.
Lengths == { f * CHANNEL_COUNT * SizeOfS16 : f \in 0..MaxWantedFrames }

\* bool PulseAudio::Start()
Start(p) ==
    [p EXCEPT !.held = 0, !.tempo = 100,
              !.m_run_thread = TRUE,
              !.pc = "SoundLoop",
              !.shutdowns = 0,
              !.starts = @ + 1,
              !.main = "started"]

\* void PulseAudio::Stop(), up to the join
StopRequest(p) ==
    [p EXCEPT !.m_run_thread = FALSE, !.main = "joining"]

\* void PulseAudio::Stop(), from the return of the join
StopJoined(p) ==
    [p EXCEPT !.held = 0, !.pc = "none", !.main = "stopped"]

\* void PulseAudio::StateCallback(pa_context* c)
StateCallback(p, state) ==
    CASE state \in { "FAILED", "TERMINATED" } ->
            [p EXCEPT !.m_pa_connected = 2]
      [] state = "READY" -> [p EXCEPT !.m_pa_connected = 1]
      [] OTHER -> p

\* An UnderflowCallback that adds the samples of a buffer, not its bytes.
UnderflowCallback_Samples(p) ==
    [p EXCEPT !.tlength = @ + BUFFER_SAMPLES, !.underflows = @ + 1]

\* void PulseAudio::UnderflowCallback(pa_stream* s)
UnderflowCallback(p) ==
    [p EXCEPT !.tlength = @ + BUFFER_SIZE, !.underflows = @ + 1]

\* void PulseAudio::PulseShutdown()
PulseShutdown(p) ==
    [p EXCEPT !.ml = @ - 1, !.shutdowns = @ + 1]

\* bool PulseAudio::PulseInit(), up to the loop that waits for the
\* connection: the main loop and the context are created.
PulseInitConnect(p, connect_result) ==
    [p EXCEPT !.m_pa_connected = 0,
              !.ml = @ + 1,
              !.m_pa_error = connect_result,
              !.pc = "PulseInit_wait"]

\* m_pa_error = pa_mainloop_iterate(m_pa_ml, 1, nullptr): the return.
IterateReturn(p, result) ==
    [p EXCEPT !.m_pa_error = result, !.iterates = 1 - @]

\* A pa_mainloop_iterate that calls StateCallback.
Iterate(p, state, result) == IterateReturn(StateCallback(p, state), result)

\* bool PulseAudio::PulseInit(), from the end of the loop: false on a failed
\* connection or an error, and else the stream is connected.
PulseInitStream(p, playback_result) ==
    IF p.m_pa_connected = 2 \/ p.m_pa_error < 0
    THEN [p EXCEPT !.pc = "SoundLoop_return"]
    ELSE LET q == [p EXCEPT !.tlength = BUFFER_SIZE,
                            !.underflows = 0,
                            !.m_pa_error = playback_result]
         IN IF q.m_pa_error < 0
            THEN [q EXCEPT !.pc = "SoundLoop_return"]
            ELSE [q EXCEPT !.pc = "SoundLoop_loop"]

\* The condition of the loop of SoundLoop.
SoundLoopRuns(p) ==
    p.m_run_thread /\ p.m_pa_connected = 1 /\ p.m_pa_error >= 0

\* A SoundLoop that calls PulseShutdown whatever PulseInit returned.
SoundLoopReturn_Shutdown(p) ==
    [PulseShutdown(p) EXCEPT !.pc = "exited"]

\* void PulseAudio::SoundLoop(), PulseInit having returned false.
SoundLoopReturn(p) == [p EXCEPT !.pc = "exited"]

\* void PulseAudio::SoundLoop(), from the end of its loop.
SoundLoopShutdown(p) == [PulseShutdown(p) EXCEPT !.pc = "exited"]

\* void PulseAudio::WriteCallback(pa_stream* s, size_t length), up to the
\* fill loop.
WriteCallbackEnter(p, length, begin_result, buffer_null, rate) ==
    LET q == [p EXCEPT !.m_pa_error = begin_result]
    IN IF buffer_null \/ q.m_pa_error < 0
       THEN q
       ELSE [q EXCEPT
               !.tempo    = IF rate > 10 THEN rate ELSE @,
               !.held     = IF rate > 1000 THEN 0 ELSE @,
               !.length   = length,
               !.wanted   = (length \div SizeOfS16) \div CHANNEL_COUNT,
               !.received = 0,
               !.last_mix = 0,
               !.last_put = 0,
               !.written  = 0,
               !.pc       = "WriteCallback_loop"]

\* A fill loop that leaves as soon as the time-stretcher returned a frame.
WriteCallbackLoop_LeavesEarly(p, got, write_result) ==
    LET q == [p EXCEPT !.received = @ + got,
                       !.held     = @ - got,
                       !.iterates = 1 - @]
    IN IF q.received = q.wanted \/ got > 0
       THEN [q EXCEPT !.written    = q.length,
                      !.m_pa_error = write_result,
                      !.pc         = "SoundLoop_loop"]
       ELSE [q EXCEPT !.last_mix = q.wanted,
                      !.last_put = q.wanted,
                      !.held     = Min(@ + q.wanted, MaxHeld)]

\* One iteration of the fill loop of WriteCallback, receiveSamples returning
\* got frames; the iteration that leaves the loop writes the block.
WriteCallbackLoop(p, got, write_result) ==
    LET q == [p EXCEPT !.received = @ + got,
                       !.held     = @ - got,
                       !.iterates = 1 - @]
    IN IF q.received = q.wanted
       THEN [q EXCEPT !.written    = q.length,
                      !.m_pa_error = write_result,
                      !.pc         = "SoundLoop_loop"]
       ELSE [q EXCEPT !.last_mix = q.wanted,
                      !.last_put = q.wanted,
                      !.held     = Min(@ + q.wanted, MaxHeld)]

\* Frames receiveSamples may return: no more than asked, no more than held.
Receivable(p) == 0..Min(p.held, p.wanted - p.received)

InitPulseSpec ==
    /\ InitUCode
    /\ InitBuf
    /\ InitObs
    /\ InitMixIdle
    /\ InitPulse
    /\ fifo = FifoObserver(0)

PaStart ==
    /\ pa.main \in { "constructed", "stopped" }
    /\ pa.starts < MaxStarts
    /\ pa' = Start(pa)
    /\ UNCHANGED << ucodeVars, bufVars, fifo, obs, mix >>

PaStopRequest ==
    /\ pa.main = "started"
    /\ pa' = StopRequest(pa)
    /\ UNCHANGED << ucodeVars, bufVars, fifo, obs, mix >>

PaStopJoined ==
    /\ pa.main = "joining"
    /\ pa.pc = "exited"
    /\ pa' = StopJoined(pa)
    /\ UNCHANGED << ucodeVars, bufVars, fifo, obs, mix >>

PaPulseInitConnect ==
    /\ pa.pc = "SoundLoop"
    /\ \E r \in PaResults : pa' = PulseInitConnect(pa, r)
    /\ UNCHANGED << ucodeVars, bufVars, fifo, obs, mix >>

PaPulseInitWait ==
    /\ pa.pc = "PulseInit_wait"
    /\ pa.m_pa_connected = 0 /\ pa.m_pa_error >= 0
    /\ \E state \in ContextStates, r \in PaResults :
          pa' = Iterate(pa, state, r)
    /\ UNCHANGED << ucodeVars, bufVars, fifo, obs, mix >>

PaPulseInitStream ==
    /\ pa.pc = "PulseInit_wait"
    /\ ~(pa.m_pa_connected = 0 /\ pa.m_pa_error >= 0)
    /\ \E r \in PaResults : pa' = PulseInitStream(pa, r)
    /\ UNCHANGED << ucodeVars, bufVars, fifo, obs, mix >>

PaSoundLoopReturn ==
    /\ pa.pc = "SoundLoop_return"
    /\ pa' = SoundLoopReturn(pa)
    /\ UNCHANGED << ucodeVars, bufVars, fifo, obs, mix >>

\* An iteration of the loop of SoundLoop that calls StateCallback, or no
\* callback that changes the stream.
PaIterate ==
    /\ pa.pc = "SoundLoop_loop"
    /\ SoundLoopRuns(pa)
    /\ \E state \in ContextStates \ { "READY" }, r \in PaResults :
          pa' = Iterate(pa, state, r)
    /\ UNCHANGED << ucodeVars, bufVars, fifo, obs, mix >>

\* An iteration of the loop of SoundLoop that calls UnderflowCallback.
PaUnderflow ==
    /\ pa.pc = "SoundLoop_loop"
    /\ SoundLoopRuns(pa)
    /\ pa.underflows < MaxUnderflows
    /\ \E r \in PaResults :
          pa' = IterateReturn(UnderflowCallback(pa), r)
    /\ UNCHANGED << ucodeVars, bufVars, fifo, obs, mix >>

\* An iteration of the loop of SoundLoop that calls WriteCallback.
PaWriteCallback ==
    /\ pa.pc = "SoundLoop_loop"
    /\ SoundLoopRuns(pa)
    /\ \E length \in Lengths, r \in PaResults, buffer_null \in BOOLEAN,
          rate \in Rates :
          pa' = [WriteCallbackEnter(pa, length, r, buffer_null, rate)
                    EXCEPT !.iterates = 1 - @]
    /\ UNCHANGED << ucodeVars, bufVars, fifo, obs, mix >>

\* An iteration of the fill loop in which receiveSamples returns nothing.
PaWriteWait ==
    /\ pa.pc = "WriteCallback_loop"
    /\ \E r \in PaResults : pa' = WriteCallbackLoop(pa, 0, r)
    /\ UNCHANGED << ucodeVars, bufVars, fifo, obs, mix >>

\* An iteration of the fill loop in which receiveSamples returns frames.
PaWriteReceive ==
    /\ pa.pc = "WriteCallback_loop"
    /\ \E got \in Receivable(pa) \ { 0 }, r \in PaResults :
          pa' = WriteCallbackLoop(pa, got, r)
    /\ UNCHANGED << ucodeVars, bufVars, fifo, obs, mix >>

PaSoundLoopShutdown ==
    /\ pa.pc = "SoundLoop_loop"
    /\ ~SoundLoopRuns(pa)
    /\ pa' = SoundLoopShutdown(pa)
    /\ UNCHANGED << ucodeVars, bufVars, fifo, obs, mix >>

\* A step of the audio thread outside the fill loop.
AudioThread ==
    \/ PaPulseInitConnect
    \/ PaPulseInitWait
    \/ PaPulseInitStream
    \/ PaSoundLoopReturn
    \/ PaIterate
    \/ PaUnderflow
    \/ PaWriteCallback
    \/ PaSoundLoopShutdown

NextPulse ==
    \/ PaStart
    \/ PaStopRequest
    \/ PaStopJoined
    \/ PaPulseInitConnect
    \/ PaPulseInitWait
    \/ PaPulseInitStream
    \/ PaSoundLoopReturn
    \/ PaIterate
    \/ PaUnderflow
    \/ PaWriteCallback
    \/ PaWriteWait
    \/ PaWriteReceive
    \/ PaSoundLoopShutdown

\* The audio thread runs, each pa_mainloop_iterate returns, the caller of
\* Stop runs, and the time-stretcher returns frames of those it holds.
PulseFairness ==
    /\ WF_vars(AudioThread)
    /\ WF_vars(PaWriteWait \/ PaWriteReceive)
    /\ WF_vars(PaWriteReceive)
    /\ WF_vars(PaStopJoined)

SpecPulse == InitPulseSpec /\ [][NextPulse]_vars /\ PulseFairness

\* The stream is connected: PulseInit returned true and SoundLoop has not
\* left its loop.
StreamRunning == pa.pc \in { "SoundLoop_loop", "WriteCallback_loop" }

----------------------------------------------------------------------------
(* C17 *)

\* C17: m_pa_ba.tlength is BUFFER_SIZE = 2048 when the stream is connected,
\* and while the stream runs it changes only by an underflow callback, which
\* adds BUFFER_SIZE: after k underflows it is (k + 1) * BUFFER_SIZE, and it
\* never decreases.
C17_UnderflowLatencySteps ==
    /\ [](BUFFER_SIZE = 2048)
    /\ [](StreamRunning => pa.tlength = (pa.underflows + 1) * BUFFER_SIZE)
    /\ [][ (StreamRunning /\ StreamRunning')
             => /\ pa'.tlength >= pa.tlength
                /\ pa'.tlength # pa.tlength
                      <=> pa'.underflows = pa.underflows + 1
                /\ pa'.tlength # pa.tlength
                      => pa'.tlength = pa.tlength + BUFFER_SIZE ]_vars

\* Two underflows of the stream of the second Start.
C17_Witness ==
    /\ StreamRunning
    /\ pa.starts = 2
    /\ pa.underflows = 2
    /\ pa.tlength = 3 * 2048

----------------------------------------------------------------------------
(* C18 *)

\* C18: in the fill loop of WriteCallback the frames received never exceed
\* the frames wanted; an iteration (a step of the audio thread, which flips
\* pa.iterates) that stays in the loop has pulled the
\* wanted frames from the mixer and fed them to the time-stretcher; the loop
\* is left only with received = wanted, and then length bytes, the wanted
\* samples, are written; and the loop is left, the time-stretcher returning
\* frames of those it holds.
C18_WriteCallbackFillsBlock ==
    /\ [](pa.received <= pa.wanted)
    /\ [][ (pa.pc = "WriteCallback_loop" /\ pa'.iterates # pa.iterates)
             => IF pa'.pc = "WriteCallback_loop"
                THEN /\ pa'.received < pa.wanted
                     /\ pa'.last_mix = pa.wanted
                     /\ pa'.last_put = pa.wanted
                ELSE /\ pa'.received = pa.wanted
                     /\ pa'.written = pa.length
                     /\ pa.length = pa.wanted * CHANNEL_COUNT * SizeOfS16 ]_vars
    /\ (pa.pc = "WriteCallback_loop") ~> (pa.pc # "WriteCallback_loop")

\* A block of 2 frames written after the mixer was pulled.
C18_Witness ==
    /\ pa.pc = "SoundLoop_loop"
    /\ pa.wanted = 2
    /\ pa.received = 2
    /\ pa.last_put = 2
    /\ pa.written = 8

----------------------------------------------------------------------------
(* C19 *)

\* C19: whenever Stop is called after Start, the audio thread leaves
\* SoundLoop and the join of Stop returns, each pa_mainloop_iterate call
\* returning.
C19_StopCompletes == (pa.main = "joining") ~> (pa.main = "stopped")

\* Stop waits in the join while the audio thread waits in PulseInit for the
\* connection.
C19_Witness ==
    /\ pa.main = "joining"
    /\ pa.pc = "PulseInit_wait"
    /\ pa.m_pa_connected = 0
    /\ pa.m_pa_error = 0
    /\ ~pa.m_run_thread

----------------------------------------------------------------------------
(* C20 *)

\* C20: whenever SoundLoop has returned, the main loop and the context that
\* PulseInit created are released, by exactly one PulseShutdown call.
C20_ResourcesReleased ==
    pa.pc = "exited" => (pa.shutdowns = 1 /\ pa.ml = 0)

\* SoundLoop has returned after a failed connection, without PulseShutdown.
C20_Witness ==
    /\ pa.pc = "exited"
    /\ pa.m_pa_connected = 2
    /\ pa.shutdowns = 0
    /\ pa.ml = 1


====
